---- MODULE Spec2Model ----
(***************************************************************************)
(* Model of hkss-saveinfo: the save-file name parser (src/parser.rs, built *)
(* from nom combinators) and the SaveNameInfo record with its Display      *)
(* implementation (src/save_info_struct.rs).                               *)
(*                                                                         *)
(* A text (&str / String) is a sequence of one-character strings.          *)
(* An Option<String> is [some |-> BOOLEAN, val |-> text].                  *)
(* An IResult is [ok, rest, out, err]: on Ok, rest is the unconsumed input *)
(* and out the output; on Err(Error), rest is the input the error carries  *)
(* and err its ErrorKind.                                                  *)
(***************************************************************************)
EXTENDS Integers, Sequences, FiniteSets, TLC

VARIABLES pc, input, result, info, text

vars == <<pc, input, result, info, text>>

----------------------------------------------------------------------------
(* Values *)

None == [some |-> FALSE, val |-> <<>>]

Some(x) == [some |-> TRUE, val |-> x]

Ok(rest, out) == [ok |-> TRUE, rest |-> rest, out |-> out, err |-> "None"]

Err(rest, kind, dflt) == [ok |-> FALSE, rest |-> rest, out |-> dflt, err |-> kind]

Digits == {"0", "1", "2", "3", "4", "5", "6", "7", "8", "9"}

Take(s, n) == SubSeq(s, 1, n)

Drop(s, n) == SubSeq(s, n + 1, Len(s))

StartsWith(s, p) == Len(s) >= Len(p) /\ SubSeq(s, 1, Len(p)) = p

----------------------------------------------------------------------------
(* The nom combinators the parser is built from (complete variants) *)

\* tag(p): the literal p, or Error(Tag) carrying the input
tag(p, s) ==
    IF StartsWith(s, p) THEN Ok(Drop(s, Len(p)), p) ELSE Err(s, "Tag", <<>>)

\* take(n): n characters, or Error(Eof)
take(n, s) ==
    IF Len(s) >= n THEN Ok(Drop(s, n), Take(s, n)) ELSE Err(s, "Eof", <<>>)

\* take_until(p): the text before the first occurrence of p (possibly
\* empty), p itself left unconsumed; Error(TakeUntil) when p does not occur
take_until(p, s) ==
    LET hits == {i \in 0..(Len(s) - Len(p)) : SubSeq(s, i + 1, i + Len(p)) = p}
    IN  IF hits = {} THEN Err(s, "TakeUntil", <<>>)
        ELSE LET i == CHOOSE j \in hits : \A k \in hits : j <= k
             IN  Ok(Drop(s, i), Take(s, i))

\* digit0: the longest (possibly empty) prefix of ASCII digits
digit0(s) ==
    LET n == CHOOSE k \in 0..Len(s) :
                 /\ \A i \in 1..k : s[i] \in Digits
                 /\ (k < Len(s) => s[k + 1] \notin Digits)
    IN  Ok(Drop(s, n), Take(s, n))

\* digit1: as digit0, but Error(Digit) on an empty match
digit1(s) ==
    LET r == digit0(s)
    IN  IF r.out = <<>> THEN Err(s, "Digit", <<>>) ELSE r

\* eof: succeeds on empty input only
eof(s) ==
    IF s = <<>> THEN Ok(s, <<>>) ELSE Err(s, "Eof", <<>>)

\* opt(P) on input s, r being P's result on s: Error becomes Ok(None) with
\* the input untouched
opt(r, s) ==
    IF r.ok THEN Ok(r.rest, Some(r.out)) ELSE Ok(s, None)

\* recognize(P) on input s, r being P's result on s: the consumed slice of
\* the input as output
recognize(r, s) ==
    IF r.ok THEN Ok(r.rest, Take(s, Len(s) - Len(r.rest)))
    ELSE Err(r.rest, r.err, <<>>)

\* peek(P) on input s, r being P's result on s: P's output, consuming
\* nothing
peek(r, s) ==
    IF r.ok THEN Ok(s, r.out) ELSE r

RECURSIVE separated_list0_loop(_, _)
\* the loop of separated_list0(tag("."), digit1) after the first element
separated_list0_loop(s, res) ==
    LET sep == tag(<<".">>, s)
    IN  IF ~sep.ok THEN Ok(s, res)
        ELSE LET el == digit1(sep.rest)
             IN  IF ~el.ok THEN Ok(s, res)
                 ELSE separated_list0_loop(el.rest, Append(res, el.out))

\* separated_list0(tag("."), digit1): zero or more digit groups
separated_list0(s) ==
    LET el == digit1(s)
    IN  IF ~el.ok THEN Ok(s, <<>>)
        ELSE separated_list0_loop(el.rest, <<el.out>>)

----------------------------------------------------------------------------
(* src/parser.rs *)

parse_tag_internal(s) ==
    LET a == tag(<<"_", "_">>, s)
    IN  IF ~a.ok THEN a
        ELSE LET b == take_until(<<"_", "_">>, a.rest)
             IN  IF ~b.ok THEN b
                 ELSE LET c == tag(<<"_", "_">>, b.rest)
                      IN  IF ~c.ok THEN c ELSE Ok(c.rest, b.out)

\* parse_suffix_bak with digit1 in place of digit0: a bare `.bak` is refused
parse_suffix_bak_digit1(s) ==
    LET a == tag(<<".", "b", "a", "k">>, s)
    IN  IF ~a.ok THEN a
        ELSE LET b == digit1(a.rest)
             IN  IF ~b.ok THEN b
                 ELSE LET c == eof(b.rest)
                      IN  IF ~c.ok THEN c ELSE Ok(c.rest, b.out)

parse_suffix_bak(s) ==
    LET a == tag(<<".", "b", "a", "k">>, s)
    IN  IF ~a.ok THEN a
        ELSE LET b == digit0(a.rest)
                 c == eof(b.rest)
             IN  IF ~c.ok THEN c ELSE Ok(c.rest, b.out)

\* parse_suffix without its closing eof: trailing text is left unconsumed
parse_suffix_no_eof(s) ==
    LET a == tag(<<".", "d", "a", "t">>, s)
    IN  IF ~a.ok THEN Err(a.rest, a.err, None)
        ELSE LET b == opt(parse_suffix_bak(a.rest), a.rest)
             IN  Ok(b.rest, b.out)

parse_suffix(s) ==
    LET a == tag(<<".", "d", "a", "t">>, s)
    IN  IF ~a.ok THEN Err(a.rest, a.err, None)
        ELSE LET b == opt(parse_suffix_bak(a.rest), a.rest)
                 c == eof(b.rest)
             IN  IF ~c.ok THEN Err(c.rest, c.err, None) ELSE Ok(c.rest, b.out)

parse_version(s) ==
    LET a == tag(<<"_">>, s)
    IN  IF ~a.ok THEN a ELSE recognize(separated_list0(a.rest), a.rest)

\* preceded(opt(parse_version), parse_suffix)
version_then_suffix(s) ==
    LET v == opt(parse_version(s), s)
    IN  parse_suffix(v.rest)

\* peek(preceded(opt(parse_version), parse_suffix))
lookahead(s) == peek(version_then_suffix(s), s)

RECURSIVE many_till_last(_)
\* many_till that keeps taking while a later position still satisfies the
\* look-ahead: the longest tag instead of the shortest
many_till_last(s) ==
    LET g == lookahead(s)
        f == take(1, s)
        r == many_till_last(f.rest)
    IN  IF f.ok /\ r.ok THEN Ok(r.rest, f.out \o r.out)
        ELSE IF g.ok THEN Ok(g.rest, <<>>)
        ELSE IF ~f.ok THEN f ELSE r

RECURSIVE many_till(_)
\* many_till(take(1usize), lookahead): the terminator is tried first at
\* every position, the first included
many_till(s) ==
    LET g == lookahead(s)
    IN  IF g.ok THEN Ok(g.rest, <<>>)
        ELSE LET f == take(1, s)
             IN  IF ~f.ok THEN f
                 ELSE IF Len(f.rest) = Len(s) THEN Err(f.rest, "ManyTill", <<>>)
                 ELSE LET r == many_till(f.rest)
                      IN  IF ~r.ok THEN r ELSE Ok(r.rest, f.out \o r.out)

parse_user_tag(s) ==
    LET a == tag(<<"u", "s", "e", "r">>, s)
    IN  IF ~a.ok THEN a ELSE recognize(many_till(a.rest), a.rest)

NoInfo == [tag |-> <<>>, version |-> None, backup_id |-> None, internal_tag |-> None]

\* parse without step 3: the version is never parsed
parse_skip_version(s) ==
    LET r1 == opt(parse_tag_internal(s), s)
        r2 == parse_user_tag(r1.rest)
        r4 == parse_suffix(r2.rest)
    IN  IF ~r2.ok THEN Err(r2.rest, r2.err, NoInfo)
        ELSE IF ~r4.ok THEN Err(r4.rest, r4.err, NoInfo)
        ELSE Ok(r4.rest, [tag |-> r2.out, version |-> None,
                          backup_id |-> r4.out, internal_tag |-> r1.out])

parse(s) ==
    LET r1 == opt(parse_tag_internal(s), s)
        r2 == parse_user_tag(r1.rest)
        r3 == opt(parse_version(r2.rest), r2.rest)
        r4 == parse_suffix(r3.rest)
    IN  IF ~r2.ok THEN Err(r2.rest, r2.err, NoInfo)
        ELSE IF ~r4.ok THEN Err(r4.rest, r4.err, NoInfo)
        ELSE Ok(r4.rest, [tag |-> r2.out, version |-> r3.out,
                          backup_id |-> r4.out, internal_tag |-> r1.out])

----------------------------------------------------------------------------
(* src/save_info_struct.rs *)

new(t, version, backup, internal_tag) ==
    [tag |-> t, version |-> version, backup_id |-> backup,
     internal_tag |-> internal_tag]

\* ver_str without the `_` prefix
ver_str_no_prefix(r) ==
    IF r.version.some THEN r.version.val ELSE <<>>

ver_str(r) ==
    IF r.version.some THEN <<"_">> \o r.version.val ELSE <<>>

\* ext_str that treats an empty backup id as no backup
ext_str_empty_is_absent(r) ==
    IF r.backup_id.some /\ r.backup_id.val # <<>>
    THEN <<".", "d", "a", "t", ".", "b", "a", "k">> \o r.backup_id.val
    ELSE <<".", "d", "a", "t">>

ext_str(r) ==
    IF r.backup_id.some THEN <<".", "d", "a", "t", ".", "b", "a", "k">> \o r.backup_id.val
    ELSE <<".", "d", "a", "t">>

\* internal_tag_str without the closing marker
internal_tag_str_unclosed(r) ==
    IF r.internal_tag.some THEN <<"_", "_">> \o r.internal_tag.val ELSE <<>>

internal_tag_str(r) ==
    IF r.internal_tag.some THEN <<"_", "_">> \o r.internal_tag.val \o <<"_", "_">>
    ELSE <<>>

\* impl fmt::Display for SaveNameInfo
to_string(r) ==
    internal_tag_str(r) \o <<"u", "s", "e", "r">> \o r.tag \o ver_str(r) \o ext_str(r)

----------------------------------------------------------------------------
(* Inputs: names handed to parse and records handed to to_string *)

MaxTagPieces == 2

TagPieces ==
    {<<"1">>, <<"a">>, <<"_">>, <<".">>, <<".", "d", "a", "t">>, <<".", "b", "a", "k">>}

RECURSIVE TagsOf(_)
\* every text made of at most n pieces
TagsOf(n) ==
    IF n = 0 THEN {<<>>}
    ELSE LET prev == TagsOf(n - 1)
         IN  prev \cup {x \o p : x \in prev, p \in TagPieces}

Tags == TagsOf(MaxTagPieces)

\* what may stand before the literal `user`
InternalParts ==
    {<<>>, <<"_", "_", "p", "_", "_">>, <<"_", "_", "_", "_">>, <<"_", "_", "p">>,
     <<"_", "_", "p", "_", "_", "q", "_", "_">>, <<"_", "_", "p", "_", "_", "_">>,
     <<"_", "_", "a", "_", "b", "_", "_">>}

UserParts == {<<"u", "s", "e", "r">>, <<"u", "s", "e">>}

VersionParts ==
    {<<>>, <<"_", "1">>, <<"_", "1", ".", "0">>, <<"_">>, <<"_", "1", ".">>,
     <<"_", ".", "1">>}

DatParts == {<<".", "d", "a", "t">>, <<>>}

BakParts ==
    {<<>>, <<".", "b", "a", "k">>, <<".", "b", "a", "k", "1">>,
     <<".", "b", "a", "k", "1", "3">>, <<".", "b", "a", "k", "x">>, <<"x">>}

\* the names of the repository's tests and documentation
TestNames ==
    {<<"u", "s", "e", "r", "1", ".", "d", "a", "t">>,
     <<"u", "s", "e", "r", "2", "_", "1", ".", "0", ".", "2", "8", "8", "9", "1", ".", "d", "a", "t">>,
     <<"u", "s", "e", "r", "2", ".", "d", "a", "t", ".", "b", "a", "k", "1", "2", "3">>,
     <<"_", "_", "p", "i", "n", "_", "_", "u", "s", "e", "r", "a", "a", "a", "_", "b", "b", "b", "-", "c", "c", "c", ".", "d", "d", "d", "_", "1", ".", "0", ".", "2", "8", "8", "9", "1", ".", "d", "a", "t", ".", "b", "a", "k", "1", "2", "3">>,
     <<"_", "_", "a", "a", "-", "b", "b", "_", "c", "c", ".", "d", "d", "_", "_", "u", "s", "e", "r", "a", "a", "a", "_", "b", "b", "b", "-", "c", "c", "c", ".", "d", "d", "d", "_", "1", ".", "2", ".", "3", ".", "2", "8", "8", "9", "1", ".", "d", "a", "t", ".", "b", "a", "k", "1", "2", "3">>,
     <<"u", "s", "e", "r", "4", "_", "1", ".", "0", ".", "2", "8", "8", "9", "1", ".", "d", "a", "t">>,
     <<"u", "s", "e", "r", "1", ".", "d", "a", "t", ".", "b", "a", "k">>,
     <<"u", "s", "e", "r", "1", ".", "d", "a", "t", ".", "b", "a", "k", "1", "2", "3">>,
     <<"u", "s", "e", "r", "4", "_", "1", ".", "0", ".", "2", "8", "8", "9", "1", ".", "d", "a", "t", ".", "b", "a", "k", "1", "2", "3">>,
     <<"u", "s", "e", "r", "T", "e", "s", "t", ".", "d", "a", "t">>,
     <<"u", "s", "e", "r", "a", "-", "b", "_", "c", "_", "_", "d", ".", "e", ".", "d", "a", "t">>,
     <<"u", "s", "e", "r", "a", "-", "b", "_", "c", "_", "_", "d", ".", "e", "_", "1", ".", "0", ".", "2", "8", "8", "9", "1", ".", "d", "a", "t">>,
     <<"u", "s", "e", "r", "a", "-", "b", "_", "c", "_", "_", "d", ".", "e", ".", "d", "a", "t", ".", "b", "a", "k">>,
     <<"u", "s", "e", "r", "a", "-", "b", "_", "c", "_", "_", "d", ".", "e", ".", "d", "a", "t", ".", "b", "a", "k", "1", "2", "3">>,
     <<"u", "s", "e", "r", "a", "-", "b", "_", "c", "_", "_", "d", ".", "e", "_", "1", ".", "0", ".", "2", "8", "8", "9", "1", ".", "d", "a", "t", ".", "b", "a", "k", "1", "2", "3">>,
     <<"u", "s", "e", "r", "1", ".", "d", "a", "t", ".", "d", "a", "t">>,
     <<"u", "s", "e", "r", "2", ".", "d", "a", "t", ".", "b", "a", "k">>,
     <<"u", "s", "e", "r", "2", ".", "d", "a", "t">>,
     <<"_", "_", "p", "i", "n", "_", "_", "u", "s", "e", "r", "4", "_", "1", ".", "0", ".", "2", "8", "6", "5", "0", ".", "d", "a", "t", ".", "b", "a", "k", "1", "3">>,
     <<"u", "s", "e", "r", "s", "o", "m", "e", "t", "h", "i", "n", "g">>,
     <<"e", "r", "r">>}

\* field values handed to SaveNameInfo::new, well-formed and not
VersionValues ==
    {<<"1">>, <<"1", ".", "0">>, <<"1", ".", "2", ".", "3">>, <<>>, <<"1", ".">>, <<"a">>}

BackupValues == {<<>>, <<"1">>, <<"1", "3">>, <<"x">>}

InternalValues ==
    {<<"p">>, <<>>, <<"_", "a">>, <<"a", "_">>, <<"a", "_", "_", "b">>, <<"a", "_", "b">>}

Optional(S) == {None} \cup {Some(x) : x \in S}

----------------------------------------------------------------------------
(* The two pipelines: parse a name and print the record (match_checker of  *)
(* test_parse), and build a record, print it and parse the printed name.   *)

NoResult == Err(<<>>, "None", NoInfo)

InitName ==
    /\ pc = "name"
    /\ \/ \E i \in InternalParts, u \in UserParts, t \in Tags, v \in VersionParts,
             d \in DatParts, b \in BakParts : input = i \o u \o t \o v \o d \o b
       \/ input \in TestNames
    /\ result = NoResult
    /\ info = NoInfo
    /\ text = <<>>

InitRecord ==
    /\ pc = "record"
    /\ \E t \in Tags, v \in Optional(VersionValues), b \in Optional(BackupValues),
          i \in Optional(InternalValues) : info = new(t, v, b, i)
    /\ input = <<>>
    /\ result = NoResult
    /\ text = <<>>

Init == InitName \/ InitRecord

\* let x = parse(input)
ParseName ==
    /\ pc = "name"
    /\ result' = parse(input)
    /\ pc' = "parsed"
    /\ UNCHANGED <<input, info, text>>

\* let s = x.unwrap().1.to_string()
PrintParsed ==
    /\ pc = "parsed"
    /\ result.ok
    /\ info' = result.out
    /\ text' = to_string(result.out)
    /\ pc' = "printed"
    /\ UNCHANGED <<input, result>>

\* info.to_string()
PrintRecord ==
    /\ pc = "record"
    /\ text' = to_string(info)
    /\ pc' = "named"
    /\ UNCHANGED <<input, result, info>>

\* parse(&name) of the printed name
ParsePrinted ==
    /\ pc = "named"
    /\ input' = text
    /\ result' = parse(text)
    /\ pc' = "reparsed"
    /\ UNCHANGED <<info, text>>

Next == ParseName \/ PrintParsed \/ PrintRecord \/ ParsePrinted

Spec == Init /\ [][Next]_vars

TypeOK ==
    /\ pc \in {"name", "parsed", "printed", "record", "named", "reparsed"}
    /\ result.ok \in BOOLEAN

----------------------------------------------------------------------------
(* Vocabulary of the properties, stated without the parser's operators *)

EndsWith(s, p) == Len(s) >= Len(p) /\ SubSeq(s, Len(s) - Len(p) + 1, Len(s)) = p

Contains(s, p) == \E i \in 0..(Len(s) - Len(p)) : SubSeq(s, i + 1, i + Len(p)) = p

IsDigits(s) == \A i \in 1..Len(s) : s[i] \in Digits

\* one or more non-empty digit groups separated by single dots
IsVersion(s) ==
    /\ Len(s) > 0
    /\ \A i \in 1..Len(s) : s[i] \in Digits \cup {"."}
    /\ s[1] # "." /\ s[Len(s)] # "."
    /\ \A i \in 1..(Len(s) - 1) : ~(s[i] = "." /\ s[i + 1] = ".")

\* the last n characters
Last(s, n) == SubSeq(s, Len(s) - n + 1, Len(s))

S_user == <<"u", "s", "e", "r">>

S_dat == <<".", "d", "a", "t">>

S_datbak == <<".", "d", "a", "t", ".", "b", "a", "k">>

S_marker == <<"_", "_">>

\* the input starts with `__` and no `__` closes it
UnclosedInternal(s) == StartsWith(s, S_marker) /\ ~Contains(Drop(s, 2), S_marker)

\* the text between an opening `__` and the first `__` after it
InternalText(s) ==
    LET i == CHOOSE j \in 2..Len(s) :
                 /\ SubSeq(s, j + 1, j + 2) = S_marker
                 /\ \A k \in 2..(j - 1) : SubSeq(s, k + 1, k + 2) # S_marker
    IN  SubSeq(s, 3, i)

\* what follows the internal tag, or the whole input when it has none
AfterInternal(s) ==
    IF StartsWith(s, S_marker) /\ ~UnclosedInternal(s)
    THEN Drop(s, Len(InternalText(s)) + 4)
    ELSE s

\* the input ends neither in `.dat` nor in `.dat.bak<digits>`
MissingSuffix(s) ==
    /\ ~EndsWith(s, S_dat)
    /\ \A n \in 0..Len(s) : ~(IsDigits(Last(s, n)) /\ EndsWith(s, S_datbak \o Last(s, n)))

\* result is parse(input)
Parsed == pc \in {"parsed", "printed", "reparsed"}

\* text is to_string(info)
Printed == pc \in {"printed", "named", "reparsed"}

N_user1_dat_dat == <<"u", "s", "e", "r", "1", ".", "d", "a", "t", ".", "d", "a", "t">>

N_user4_version == <<"u", "s", "e", "r", "4", "_", "1", ".", "0", ".", "2", "8", "8", "9", "1", ".", "d", "a", "t">>

N_user2_dat == <<"u", "s", "e", "r", "2", ".", "d", "a", "t">>

N_user2_dat_bak == <<"u", "s", "e", "r", "2", ".", "d", "a", "t", ".", "b", "a", "k">>

N_usersomething == <<"u", "s", "e", "r", "s", "o", "m", "e", "t", "h", "i", "n", "g">>

N_pin == <<"_", "_", "p", "i", "n", "_", "_", "u", "s", "e", "r", "4", "_", "1", ".", "0", ".", "2", "8", "6", "5", "0", ".", "d", "a", "t", ".", "b", "a", "k", "1", "3">>

N_long4 == <<"_", "_", "a", "a", "-", "b", "b", "_", "c", "c", ".", "d", "d", "_", "_", "u", "s", "e", "r", "a", "a", "a", "_", "b", "b", "b", "-", "c", "c", "c", ".", "d", "d", "d", "_", "1", ".", "2", ".", "3", ".", "2", "8", "8", "9", "1", ".", "d", "a", "t", ".", "b", "a", "k", "1", "2", "3">>

----------------------------------------------------------------------------
(* C1: for every name on which parse succeeds, printing the returned       *)
(* record gives back exactly that name.                                    *)
C1_FormatOfParse == pc = "printed" => text = input

\* C1 witness: the longest test name (internal tag, 4-component version,
\* backup id) has been parsed and printed
C1_Witness ==
    /\ pc = "printed"
    /\ input = N_long4
    /\ info.internal_tag.some /\ info.version.some /\ info.backup_id.some

\* `_` followed by zero or more dot-separated digit groups: the texts the
\* version matcher matches whole
VersionLike(x) ==
    /\ Len(x) >= 1
    /\ x[1] = "_"
    /\ (Len(x) = 1 \/ IsVersion(Drop(x, 1)))

\* no ending of the tag, the whole tag included, is matched by the version
\* matcher or satisfies the version/suffix look-ahead
TagClear(t) ==
    \A p \in 0..(Len(t) - 1) :
        ~VersionLike(Drop(t, p)) /\ ~lookahead(Drop(t, p)).ok

\* the records the claim calls well-formed (its internal tag is any text)
WellFormedAsClaimed(r) ==
    /\ r.tag # <<>>
    /\ TagClear(r.tag)
    /\ r.version.some => IsVersion(r.version.val)
    /\ r.backup_id.some => IsDigits(r.backup_id.val)

\* those of them whose internal tag has no `__` inside and no `_` at its end
WellFormedAmended(r) ==
    /\ WellFormedAsClaimed(r)
    /\ r.internal_tag.some =>
           /\ ~Contains(r.internal_tag.val, S_marker)
           /\ ~EndsWith(r.internal_tag.val, <<"_">>)

(* C2, as claimed: every record with a non-empty tag that does not match   *)
(* the version/suffix look-ahead, a well-formed version, a digits-only     *)
(* backup id and any internal tag parses back, from its printed name, to   *)
(* the same record.                                                        *)
C2_AsClaimed ==
    (pc = "reparsed" /\ WellFormedAsClaimed(info)) => (result.ok /\ result.out = info)

(* C2, amended: the same, for the records whose internal tag, if present,  *)
(* contains no `__` and does not end in `_`.                               *)
C2_ParseOfFormat ==
    (pc = "reparsed" /\ WellFormedAmended(info)) =>
        (result.ok /\ result.rest = <<>> /\ result.out = info)

\* C2 witness: a record with every field present, an empty backup id and
\* `.dat` inside its tag has been printed and parsed back
C2_Witness ==
    /\ pc = "reparsed"
    /\ WellFormedAmended(info)
    /\ info.internal_tag.some /\ info.version.some
    /\ info.backup_id = Some(<<>>)
    /\ Contains(info.tag, S_dat)
    /\ result.out = info

(* C3: parse never accepts part of a name: on success nothing is left      *)
(* unconsumed, and it fails, with no record, when `user` does not follow   *)
(* the optional internal tag, when the name does not end in `.dat` or      *)
(* `.dat.bak<digits>`, or when an opening `__` is never closed.            *)
C3_NoPartialAccept ==
    Parsed =>
        /\ result.ok => result.rest = <<>>
        /\ ~result.ok => result.out = NoInfo
        /\ ~StartsWith(AfterInternal(input), S_user) => ~result.ok
        /\ MissingSuffix(input) => ~result.ok
        /\ UnclosedInternal(input) => ~result.ok
        /\ input = N_usersomething => ~result.ok

\* C3 witness: a name with `user` and `.dat` but text after the suffix was
\* refused
C3_Witness ==
    /\ pc = "parsed"
    /\ StartsWith(input, S_user)
    /\ Contains(input, S_dat)
    /\ MissingSuffix(input)
    /\ ~result.ok

\* backup_id against the ending of the name, for every accepted name
C4_BackupId ==
    (Parsed /\ result.ok) =>
        /\ ~result.out.backup_id.some <=> EndsWith(input, S_dat)
        /\ result.out.backup_id.some =>
               /\ IsDigits(result.out.backup_id.val)
               /\ EndsWith(input, S_datbak \o result.out.backup_id.val)
        /\ \A n \in 0..Len(input) :
               (IsDigits(Last(input, n)) /\ EndsWith(input, S_datbak \o Last(input, n)))
                   => result.out.backup_id = Some(Last(input, n))

\* the two names of the claim
C4_Examples ==
    Parsed =>
        /\ input = N_user2_dat_bak =>
               (result.ok /\ result.out.backup_id = Some(<<>>)
                /\ result.out # parse(N_user2_dat).out)
        /\ input = N_user2_dat => (result.ok /\ result.out.backup_id = None)

(* C4: in a returned record backup_id is absent exactly when the name ends *)
(* in `.dat`, and is Some(d), d digits only and possibly empty, exactly    *)
(* when the name ends in `.dat.bak` d; `user2.dat.bak` gives Some("") and  *)
(* `user2.dat` gives None.                                                 *)
C4_BackupIdDistinct == C4_BackupId /\ C4_Examples

\* C4 witness: `user2.dat.bak` was parsed to a present, empty backup id
C4_Witness ==
    /\ pc = "parsed"
    /\ input = N_user2_dat_bak
    /\ result.ok
    /\ result.out.backup_id = Some(<<>>)

(* C5: printing is the concatenation [`__` internal_tag `__`] `user` tag   *)
(* [`_` version] `.dat` [`.bak` backup_id], each bracketed part present    *)
(* exactly when its field is; an empty backup id still prints `.bak`, and  *)
(* every printed name contains `user`.                                     *)
C5_Format ==
    Printed =>
        /\ text = (IF info.internal_tag.some
                   THEN S_marker \o info.internal_tag.val \o S_marker ELSE <<>>)
                  \o S_user \o info.tag
                  \o (IF info.version.some THEN <<"_">> \o info.version.val ELSE <<>>)
                  \o S_dat
                  \o (IF info.backup_id.some
                      THEN <<".", "b", "a", "k">> \o info.backup_id.val ELSE <<>>)
        /\ info.internal_tag.some <=> StartsWith(text, S_marker)
        /\ info.backup_id = Some(<<>>) => EndsWith(text, S_datbak)
        /\ Contains(text, S_user)

\* C5 witness: a record with an internal tag, no version and an empty
\* backup id has been printed
C5_Witness ==
    /\ pc = "named"
    /\ info.internal_tag.some
    /\ ~info.version.some
    /\ info.backup_id = Some(<<>>)
    /\ EndsWith(text, S_datbak)

(* C6: in a returned record the version, when present, is one or more      *)
(* non-empty digit groups separated by dots, never the empty string; a     *)
(* name without the `_` gives an absent version.                           *)
C6_VersionWellFormed ==
    (Parsed /\ result.ok) =>
        /\ result.out.version.some => IsVersion(result.out.version.val)
        /\ ~Contains(AfterInternal(input), <<"_">>) => ~result.out.version.some

(* C7: in a returned record the tag is never empty.                        *)
C7_TagNonEmpty == (Parsed /\ result.ok) => result.out.tag # <<>>

\* the input of the user-tag step
UserTagInput == AfterInternal(input)

\* the positions after `user` from which the rest is version + suffix
TagEnds ==
    {p \in 0..(Len(UserTagInput) - 4) :
        version_then_suffix(Drop(UserTagInput, 4 + p)).ok}

(* C8: after `user` the tag matcher stops at the leftmost position whose   *)
(* remaining input, to its end, is an optional version and a suffix; the   *)
(* tag is the text before that position, the remainder the text from it,   *)
(* and the look-ahead consumes nothing.                                    *)
C8_LeftmostTag ==
    (Parsed /\ StartsWith(UserTagInput, S_user)) =>
        LET u == parse_user_tag(UserTagInput)
        IN  /\ u.ok <=> TagEnds # {}
            /\ u.ok =>
                   /\ Len(u.out) \in TagEnds
                   /\ \A p \in TagEnds : Len(u.out) <= p
                   /\ u.out = SubSeq(UserTagInput, 5, 4 + Len(u.out))
                   /\ u.rest = Drop(UserTagInput, 4 + Len(u.out))
                   /\ lookahead(u.rest).rest = u.rest
            /\ result.ok => result.out.tag = u.out
            /\ input = N_user1_dat_dat =>
                   (u.ok /\ u.out = <<"1", ".", "d", "a", "t">> /\ u.rest = S_dat)
            /\ input = N_user4_version =>
                   (u.ok /\ u.out = <<"4">> /\ u.rest = Drop(N_user4_version, 5))

\* C8 witness: a name with two such positions was parsed, its tag holding
\* a `.dat`
C8_Witness ==
    /\ pc = "parsed"
    /\ result.ok
    /\ Cardinality(TagEnds) >= 2
    /\ result.out.tag # <<>>
    /\ Contains(result.out.tag, S_dat)

(* C9: internal_tag is present exactly when the name starts with `__`, and *)
(* is then non-empty, free of `__`, and the text up to the first `__` that *)
(* follows the opening one.                                                *)
C9_InternalTag ==
    (Parsed /\ result.ok) =>
        /\ result.out.internal_tag.some <=> StartsWith(input, S_marker)
        /\ result.out.internal_tag.some =>
               /\ result.out.internal_tag.val # <<>>
               /\ ~Contains(result.out.internal_tag.val, S_marker)
               /\ result.out.internal_tag.val = InternalText(input)
        /\ input = N_pin =>
               result.out = new(<<"4">>, Some(<<"1", ".", "0", ".", "2", "8", "6", "5", "0">>),
                                Some(<<"1", "3">>), Some(<<"p", "i", "n">>))

(* C10: the look-ahead of the tag matcher and the version and suffix steps *)
(* of parse agree: once the user-tag step succeeds the two later steps     *)
(* succeed, consume the remainder to its end and store what the look-ahead *)
(* matched, so parse succeeds exactly when the user-tag step does.         *)
C10_LookaheadAgrees ==
    Parsed =>
        LET r1 == opt(parse_tag_internal(input), input)
            r2 == parse_user_tag(r1.rest)
            r3 == opt(parse_version(r2.rest), r2.rest)
            r4 == parse_suffix(r3.rest)
            la == lookahead(r2.rest)
        IN  /\ result.ok <=> r2.ok
            /\ r2.ok =>
                   /\ la.ok /\ la.rest = r2.rest
                   /\ r3.ok /\ r4.ok /\ r4.rest = <<>>
                   /\ la.out = r4.out
                   /\ result.out.version = r3.out
                   /\ result.out.backup_id = r4.out
                   /\ (IF r3.out.some THEN <<"_">> \o r3.out.val ELSE <<>>)
                      \o S_dat
                      \o (IF r4.out.some THEN <<".", "b", "a", "k">> \o r4.out.val ELSE <<>>)
                      = r2.rest

\* C10 witness: a name with internal tag, version and backup id was parsed
C10_Witness ==
    /\ pc = "parsed"
    /\ result.ok
    /\ result.out.version.some /\ result.out.version.val # <<>>
    /\ result.out.backup_id.some /\ result.out.backup_id.val # <<>>
    /\ result.out.internal_tag.some

====
